---- MODULE Spec2Model ----
(***************************************************************************)
(* The stream manager of rust/server/src/stream/stream_manager.rs: the     *)
(* facade StreamManager (one Mutex around StreamManagerCore) with its      *)
(* operations update_fragment, update_actor_info, build_fragment and       *)
(* wait_all, and the actor tasks build_fragment spawns.                    *)
(*                                                                         *)
(* A channel is a number: channel c has the sender c and the receiver c.   *)
(* The two Vecs of a pool entry are kept as sets of channels: the order    *)
(* in which update_fragment pushes them follows the iteration order of a   *)
(* HashMap, which is arbitrary, and the builders read only the members     *)
(* and the length.                                                         *)
(*                                                                         *)
(* The version checkpoint of src/meta/src/hummock/manager/checkpoint.rs:   *)
(* create_version_checkpoint in its three steps (read-locked, unlocked     *)
(* upload, write-locked), run by the invocations of Invocations, next to   *)
(* the operations of the manager that advance the current version.         *)
(* SpecCheckpoint is the specification of this part, Spec the one of the   *)
(* stream manager; each leaves the variables of the other as Init sets     *)
(* them.                                                                   *)
(***************************************************************************)
EXTENDS Integers, Sequences, FiniteSets, TLC

VARIABLES
    fragments,     \* StreamManagerCore.fragments: fragment id -> StreamFragment
    channel_pool,  \* StreamManagerCore.channel_pool: id -> (senders, receivers)
    actors,        \* StreamManagerCore.actors: fragment id -> host
    handles,       \* StreamManagerCore.handles: join handles, as task indices
    mock_source,   \* StreamManagerCore.mock_source: (Option<tx>, Option<rx>)
    poisoned,      \* StreamManager.core: the Mutex is poisoned
    tasks,         \* the tasks given to tokio::spawn, in spawn order
    joined,        \* the tasks whose join handle a wait_all has awaited
    next_chan      \* the number of channels created so far

VARIABLES
    versioning,    \* HummockManager.versioning: current_version (its id),
                   \* hummock_version_deltas (id -> gc_object_ids), checkpoint
                   \* (version id, stale_objects), objects_to_delete
    object_store,  \* the object at version_checkpoint_path
    calls,         \* invocation -> pc (its step of create_version_checkpoint),
                   \* local (new_checkpoint, old_checkpoint_id), result (what
                   \* its last call returned)
    overlapped,    \* some call started while another was under way
    written        \* the checkpoints uploaded to the object store so far

stream_vars == <<fragments, channel_pool, actors, handles, mock_source, poisoned,
                 tasks, joined, next_chan>>

hummock_vars == <<versioning, object_store, calls, overlapped, written>>

vars == <<stream_vars, hummock_vars>>

----------------------------------------------------------------------------
(* Bounds and inputs *)

\* The channels update_fragment may create in all, the actors build_fragment
\* may spawn in all.
MaxChannels == 2
MaxTasks == 2

MockSourceId == 0

FragmentIds == {1, 2}

LocalHost == "127.0.0.1"
RemoteHost == "10.0.0.2"

StreamFragment(id, up, down, disp, nodes) ==
    [fragment_id |-> id, upstream_fragment_id |-> up,
     downstream_fragment_id |-> down, dispatcher |-> disp, nodes |-> nodes]

\* The fragment definitions the callers register.
StreamFragments ==
    { StreamFragment(1, <<0>>, <<2>>, "SIMPLE", "ok"),
      StreamFragment(1, <<>>, <<2>>, "SIMPLE", "ok"),
      StreamFragment(1, <<0>>, <<2, 2>>, "SIMPLE", "ok"),
      StreamFragment(1, <<0>>, <<2>>, "BLACKHOLE", "ok"),
      StreamFragment(2, <<1>>, <<>>, "BLACKHOLE", "ok"),
      StreamFragment(2, <<1>>, <<>>, "BLACKHOLE", "err"),
      StreamFragment(2, <<1>>, <<>>, "SIMPLE", "ok"),
      StreamFragment(2, <<0, 1>>, <<>>, "BROADCAST", "ok") }

FragmentBatches ==
    {<<>>} \cup {<<f>> : f \in StreamFragments}
           \cup {<<f, g>> : f \in StreamFragments, g \in StreamFragments}

ActorInfo(id, host) == [fragment_id |-> id, host |-> host]

Hosts == {LocalHost, RemoteHost}

ActorInfos == {ActorInfo(id, h) : id \in FragmentIds, h \in Hosts}

ActorInfoTables ==
    {<<>>} \cup {<<a>> : a \in ActorInfos}
           \cup {<<a, b>> : a \in ActorInfos, b \in ActorInfos}

BuildRequests ==
    {<<>>} \cup {<<i>> : i \in FragmentIds}
           \cup {<<i, j>> : i \in FragmentIds, j \in FragmentIds}

----------------------------------------------------------------------------
(* HashMap and channel pool helpers *)

EmptyMap == [x \in {} |-> 0]

HashMapInsert(map, k, v) ==
    [x \in DOMAIN map \cup {k} |-> IF x = k THEN v ELSE map[x]]

HashMapRemove(map, k) == [x \in DOMAIN map \ {k} |-> map[x]]

\* channel_pool.entry(id).or_default(), read
PoolEntry(pool, id) ==
    IF id \in DOMAIN pool THEN pool[id] ELSE [tx |-> {}, rx |-> {}]

Min(S) == CHOOSE m \in S : \A x \in S : m <= x

----------------------------------------------------------------------------
(* update_fragment *)

\* The first loop: insert every fragment of the batch, stop at the first id
\* that was present. HashMap::insert has stored the new value by then.
RECURSIVE InsertFragments(_, _)
InsertFragments(frags, batch) ==
    IF batch = <<>>
    THEN [fragments |-> frags, dup |-> FALSE]
    ELSE LET f == Head(batch)
             ret == f.fragment_id \in DOMAIN frags
             inserted == HashMapInsert(frags, f.fragment_id, f)
         IN  IF ret
             THEN [fragments |-> inserted, dup |-> TRUE]
             ELSE InsertFragments(inserted, Tail(batch))

EdgesOf(f) ==
    [k \in 1..Len(f.downstream_fragment_id) |->
        <<f.fragment_id, f.downstream_fragment_id[k]>>]

\* The second loop passing over the downstreams that are not in the registry.
RECURSIVE AllEdgesRegistered(_, _)
AllEdgesRegistered(frags, ids) ==
    IF ids = {}
    THEN <<>>
    ELSE LET m == Min(ids)
         IN  SelectSeq(EdgesOf(frags[m]), LAMBDA e : e[2] \in DOMAIN frags)
                 \o AllEdgesRegistered(frags, ids \ {m})

\* The second loop visits every fragment of the registry, each downstream of it.
RECURSIVE AllEdges(_, _)
AllEdges(frags, ids) ==
    IF ids = {}
    THEN <<>>
    ELSE LET m == Min(ids)
         IN  EdgesOf(frags[m]) \o AllEdges(frags, ids \ {m})

\* One channel(LOCAL_OUTPUT_CHANNEL_SIZE) per visited edge: the sender to the
\* entry of the current fragment, the receiver to the entry of the downstream.
RECURSIVE DeclareEdges(_, _, _)
DeclareEdges(pool, edges, next) ==
    IF edges = <<>>
    THEN pool
    ELSE LET c == next + 1
             cur == Head(edges)[1]
             down == Head(edges)[2]
             e1 == PoolEntry(pool, cur)
             p1 == HashMapInsert(pool, cur, [e1 EXCEPT !.tx = @ \cup {c}])
             e2 == PoolEntry(p1, down)
             p2 == HashMapInsert(p1, down, [e2 EXCEPT !.rx = @ \cup {c}])
         IN  DeclareEdges(p2, Tail(edges), c)

UpdateFragment(batch) ==
    /\ ~poisoned
    /\ LET ins == InsertFragments(fragments, batch)
           edges == AllEdges(ins.fragments, DOMAIN ins.fragments)
       IN  IF ins.dup
           THEN /\ fragments' = ins.fragments
                /\ UNCHANGED <<channel_pool, next_chan>>
           ELSE /\ next_chan + Len(edges) <= MaxChannels
                /\ fragments' = ins.fragments
                /\ channel_pool' = DeclareEdges(channel_pool, edges, next_chan)
                /\ next_chan' = next_chan + Len(edges)
    /\ UNCHANGED <<actors, handles, mock_source, poisoned, tasks, joined>>
    /\ UNCHANGED hummock_vars

----------------------------------------------------------------------------
(* update_actor_info *)

RECURSIVE InsertActors(_, _)
InsertActors(acts, table) ==
    IF table = <<>>
    THEN [actors |-> acts, dup |-> FALSE]
    ELSE LET a == Head(table)
             ret == a.fragment_id \in DOMAIN acts
             inserted == HashMapInsert(acts, a.fragment_id, a.host)
         IN  IF ret
             THEN [actors |-> inserted, dup |-> TRUE]
             ELSE InsertActors(inserted, Tail(table))

UpdateActorInfo(table) ==
    /\ ~poisoned
    /\ actors' = InsertActors(actors, table).actors
    /\ UNCHANGED <<fragments, channel_pool, handles, mock_source, poisoned,
                   tasks, joined, next_chan>>
    /\ UNCHANGED hummock_vars

----------------------------------------------------------------------------
(* build_fragment *)

\* std::mem::take(&mut x.1) on the entry of fragment_id, if there is one
TakeReceivers(pool, id) ==
    IF id \in DOMAIN pool THEN [pool EXCEPT ![id].rx = {}] ELSE pool

\* TakeSenders written with clone() for take(): the senders stay in the pool.
TakeSendersCloned(pool, id) == pool

\* std::mem::take(&mut x.0) on the entry of fragment_id, if there is one
TakeSenders(pool, id) ==
    IF id \in DOMAIN pool THEN [pool EXCEPT ![id].tx = {}] ELSE pool

\* A remote upstream passed over like a local one.
UpstreamHostSkipped(host) == ""

\* The placement of a non-mock upstream: "127.0.0.1" continues the loop, any
\* other host reaches todo!("remote node is not supported in streaming engine").
UpstreamHost(host) ==
    IF host = LocalHost THEN "" ELSE "remote node is not supported"

\* The loop of create_merger over the declared upstreams, in order: the mock
\* source gives its receiver (unwrap of an Option), any other upstream must be
\* in the actor table and local. mock_rx: mock_source.1 is Some; n_mock: the
\* receivers pushed from the mock source.
RECURSIVE ResolveUpstreams(_, _, _, _)
ResolveUpstreams(upstreams, acts, mock_rx, n_mock) ==
    IF upstreams = <<>>
    THEN [why |-> "", mock_rx |-> mock_rx, n_mock |-> n_mock]
    ELSE LET upstream == Head(upstreams)
         IN  IF upstream = MockSourceId
             THEN IF mock_rx
                  THEN ResolveUpstreams(Tail(upstreams), acts, FALSE, n_mock + 1)
                  ELSE [why |-> "mock source taken", mock_rx |-> mock_rx,
                        n_mock |-> n_mock]
             ELSE IF upstream \notin DOMAIN acts
                  THEN [why |-> "upstream actor not found in info table",
                        mock_rx |-> mock_rx, n_mock |-> n_mock]
                  ELSE IF UpstreamHost(acts[upstream]) = ""
                       THEN ResolveUpstreams(Tail(upstreams), acts, mock_rx, n_mock)
                       ELSE [why |-> UpstreamHost(acts[upstream]),
                             mock_rx |-> mock_rx, n_mock |-> n_mock]

\* UpstreamsAvailable written with <= for ==: missing receivers are accepted.
UpstreamsAvailableAtMost(n_rxs, upstreams) == n_rxs <= Len(upstreams)

\* assert_eq!(rxs.len(), upstreams.len())
UpstreamsAvailable(n_rxs, upstreams) == n_rxs = Len(upstreams)

\* create_merger: the state it leaves and the receivers the merger owns.
CreateMerger(pool, mock, acts, fragment_id, upstreams) ==
    IF upstreams = <<>>
    THEN [status |-> "Panic", why |-> "upstreams is empty", pool |-> pool,
          mock_source |-> mock, rxs |-> {}, mock_rx |-> FALSE]
    ELSE LET rxs == PoolEntry(pool, fragment_id).rx
             pool1 == TakeReceivers(pool, fragment_id)
             res == ResolveUpstreams(upstreams, acts, mock.rx, 0)
             mock1 == [mock EXCEPT !.rx = res.mock_rx]
         IN  IF res.why # ""
             THEN [status |-> "Panic", why |-> res.why, pool |-> pool1,
                   mock_source |-> mock1, rxs |-> {}, mock_rx |-> FALSE]
             ELSE IF ~UpstreamsAvailable(Cardinality(rxs) + res.n_mock, upstreams)
                  THEN [status |-> "Panic",
                        why |-> "upstreams are not fully available",
                        pool |-> pool1, mock_source |-> mock1, rxs |-> {},
                        mock_rx |-> FALSE]
                  ELSE [status |-> "Ok", why |-> "", pool |-> pool1,
                        mock_source |-> mock1, rxs |-> rxs,
                        mock_rx |-> res.n_mock > 0]

\* create_nodes: Ok(operator), or the Err of a node body that does not parse or
\* an expression that does not build, or the todo!() of an unsupported node.
CreateNodes(nodes) ==
    CASE nodes = "ok" -> [status |-> "Ok", why |-> ""]
      [] nodes = "err" -> [status |-> "Err", why |-> "ProtobufError"]
      [] OTHER -> [status |-> "Panic", why |-> "unsupported StreamNodeType"]

\* The arity of SimpleDispatcher checked with >= 1 for == 1.
SimpleOutputsAtLeastOne(n_outputs) == n_outputs >= 1

\* assert_eq!(outputs.len(), 1)
SimpleOutputs(n_outputs) == n_outputs = 1

\* assert_eq!(downstreams.len(), outputs.len())
DownstreamsAvailable(n_outputs, downstreams) == Len(downstreams) = n_outputs

\* create_dispatcher: the state it leaves, the senders taken from the pool
\* (outputs) and the senders the dispatcher owns (txs).
CreateDispatcher(pool, dispatcher, fragment_id, downstreams) ==
    LET outputs == PoolEntry(pool, fragment_id).tx
        pool1 == TakeSenders(pool, fragment_id)
        n == Cardinality(outputs)
        panic(why) == [status |-> "Panic", why |-> why, pool |-> pool1,
                       outputs |-> outputs, txs |-> {}]
        ok(txs) == [status |-> "Ok", why |-> "", pool |-> pool1,
                    outputs |-> outputs, txs |-> txs]
    IN  IF ~DownstreamsAvailable(n, downstreams)
        THEN panic("downstreams.len() != outputs.len()")
        ELSE CASE dispatcher \in {"ROUND_ROBIN", "HASH", "BROADCAST"} ->
                    IF n = 0 THEN panic("outputs is empty") ELSE ok(outputs)
               [] dispatcher = "SIMPLE" ->
                    IF ~SimpleOutputs(n) THEN panic("outputs.len() != 1")
                    ELSE ok(outputs)
               [] dispatcher = "BLACKHOLE" -> ok({})

BuildState(frags, pool, mock, tsks, status, why) ==
    [fragments |-> frags, channel_pool |-> pool, mock_source |-> mock,
     tasks |-> tsks, status |-> status, why |-> why]

\* Actor::new(dispatcher) handed to tokio::spawn: what the task owns.
Actor(frag, merger, disp) ==
    [fragment_id |-> frag.fragment_id, dispatcher |-> frag.dispatcher,
     rxs |-> merger.rxs, mock_rx |-> merger.mock_rx,
     outputs |-> disp.outputs, txs |-> disp.txs,
     n_upstreams |-> Len(frag.upstream_fragment_id),
     n_downstreams |-> Len(frag.downstream_fragment_id),
     status |-> "running"]

\* One iteration of the loop of build_fragment.
BuildOne(st, acts, fragment_id) ==
    IF fragment_id \notin DOMAIN st.fragments
    THEN [st EXCEPT !.status = "Panic", !.why = "fragment not found"]
    ELSE LET fragment == st.fragments[fragment_id]
             frags == HashMapRemove(st.fragments, fragment_id)
             merger == CreateMerger(st.channel_pool, st.mock_source, acts,
                                    fragment_id, fragment.upstream_fragment_id)
             operator == CreateNodes(fragment.nodes)
             disp == CreateDispatcher(merger.pool, fragment.dispatcher, fragment_id,
                                      fragment.downstream_fragment_id)
         IN  IF merger.status # "Ok"
             THEN BuildState(frags, merger.pool, merger.mock_source, st.tasks,
                             merger.status, merger.why)
             ELSE IF operator.status # "Ok"
             THEN BuildState(frags, merger.pool, merger.mock_source, st.tasks,
                             operator.status, operator.why)
             ELSE IF disp.status # "Ok"
             THEN BuildState(frags, disp.pool, merger.mock_source, st.tasks,
                             disp.status, disp.why)
             ELSE BuildState(frags, disp.pool, merger.mock_source,
                             Append(st.tasks, Actor(fragment, merger, disp)),
                             "Ok", "")

RECURSIVE BuildLoop(_, _, _)
BuildLoop(st, acts, ids) ==
    IF ids = <<>> \/ st.status # "Ok"
    THEN st
    ELSE BuildLoop(BuildOne(st, acts, Head(ids)), acts, Tail(ids))

\* A panic inside the call unwinds through the MutexGuard and poisons the Mutex.
BuildFragment(ids) ==
    /\ ~poisoned
    /\ LET st == BuildLoop(BuildState(fragments, channel_pool, mock_source, tasks,
                                      "Ok", ""), actors, ids)
       IN  /\ Len(st.tasks) <= MaxTasks
           /\ fragments' = st.fragments
           /\ channel_pool' = st.channel_pool
           /\ mock_source' = st.mock_source
           /\ tasks' = st.tasks
           /\ poisoned' = (st.status = "Panic")
    /\ UNCHANGED <<actors, handles, joined, next_chan>>
    /\ UNCHANGED hummock_vars

----------------------------------------------------------------------------
(* wait_all *)

\* The loop over the handles taken out of self.handles: await each in order,
\* return the first Err. "Pending": the awaited task is still running.
RECURSIVE JoinAll(_, _, _)
JoinAll(hs, tsks, done) ==
    IF hs = <<>>
    THEN [status |-> "Ok", why |-> "", joined |-> done]
    ELSE LET h == Head(hs)
         IN  CASE tsks[h].status = "running" ->
                    [status |-> "Pending", why |-> "", joined |-> done]
               [] tsks[h].status = "ok" ->
                    JoinAll(Tail(hs), tsks, done \cup {h})
               [] tsks[h].status = "err" ->
                    [status |-> "Err", why |-> "actor error", joined |-> done \cup {h}]

\* std::mem::take(&mut self.handles): the handles not awaited are dropped.
WaitAll ==
    /\ ~poisoned
    /\ LET res == JoinAll(handles, tasks, {})
       IN  /\ res.status # "Pending"
           /\ handles' = <<>>
           /\ joined' = joined \cup res.joined
    /\ UNCHANGED <<fragments, channel_pool, actors, mock_source, poisoned, tasks,
                   next_chan>>
    /\ UNCHANGED hummock_vars

----------------------------------------------------------------------------
(* The rest of the system *)

\* actor.run() ends: Ok(()) or the error of the chain.
ActorExit(i, outcome) ==
    /\ tasks[i].status = "running"
    /\ tasks' = [tasks EXCEPT ![i].status = outcome]
    /\ UNCHANGED <<fragments, channel_pool, actors, handles, mock_source, poisoned,
                   joined, next_chan>>
    /\ UNCHANGED hummock_vars

\* self.core.lock().unwrap() on a poisoned Mutex panics in every facade call.
PoisonedCall ==
    /\ poisoned
    /\ UNCHANGED <<fragments, channel_pool, actors, handles, mock_source, poisoned,
                   tasks, joined, next_chan>>
    /\ UNCHANGED hummock_vars

----------------------------------------------------------------------------
(* create_version_checkpoint *)

\* The version ids the manager may reach, the largest min_delta_log_num a call
\* is made with.
MaxVersion == 3
MaxMinDeltaLogNum == 2

\* The callers of create_version_checkpoint.
Invocations == {1, 2}

MinDeltaLogNums == 0..MaxMinDeltaLogNum

ObjectIds == 1..MaxVersion

\* gc_object_ids of the delta that leads to version id: none, or one object
\* (named after the delta that removes it).
GcObjectIds(id) == {{}, {id}}

HummockVersionCheckpoint(version, stale_objects) ==
    [version |-> version, stale_objects |-> stale_objects]

Returned(status, value) == [status |-> status, value |-> value]

\* No call made yet, or the call is under way.
NoReturn == Returned("None", 0)

\* The locals of an invocation that is not between two steps.
NoLocal == [new_checkpoint |-> HummockVersionCheckpoint(0, EmptyMap),
            old_checkpoint_id |-> 0]

\* The threshold ignoring min_delta_log_num.
SkipCheckpointWithoutMin(new_checkpoint_id, old_checkpoint_id, min_delta_log_num) ==
    new_checkpoint_id < old_checkpoint_id

\* if new_checkpoint_id < old_checkpoint_id + min_delta_log_num { return Ok(0) }
SkipCheckpoint(new_checkpoint_id, old_checkpoint_id, min_delta_log_num) ==
    new_checkpoint_id < old_checkpoint_id + min_delta_log_num

\* stale_objects started from an empty map, not from the clone of the old one.
StaleObjectsWithoutOld(old_stale_objects, deltas, old_checkpoint_id, new_checkpoint_id) ==
    LET inserted == {id \in DOMAIN deltas :
                        /\ old_checkpoint_id < id
                        /\ id <= new_checkpoint_id
                        /\ deltas[id] # {}}
    IN  [id \in inserted |-> deltas[id]]

\* stale_objects of the new checkpoint: the clone of the old map, then one
\* insert per delta of range (Excluded(old id), Included(new id)) whose
\* gc_object_ids is not empty.
StaleObjects(old_stale_objects, deltas, old_checkpoint_id, new_checkpoint_id) ==
    LET inserted == {id \in DOMAIN deltas :
                        /\ old_checkpoint_id < id
                        /\ id <= new_checkpoint_id
                        /\ deltas[id] # {}}
    IN  [id \in DOMAIN old_stale_objects \cup inserted |->
            IF id \in inserted THEN deltas[id] ELSE old_stale_objects[id]]

\* The assertion of step 3 written the other way round.
CheckpointNotOlderFlipped(new_checkpoint, in_memory) ==
    new_checkpoint.version <= in_memory.version

\* assert!(checkpoint.version.is_none() || new id >= checkpoint id); the version
\* of the in-memory checkpoint is always Some (step 1 unwraps it).
CheckpointNotOlder(new_checkpoint, in_memory) ==
    new_checkpoint.version >= in_memory.version

\* versioning.mark_objects_for_deletion(): every object of the stale_objects of
\* the checkpoint joins objects_to_delete.
MarkObjectsForDeletion(to_delete, ckpt) ==
    to_delete \cup UNION {ckpt.stale_objects[id] : id \in DOMAIN ckpt.stale_objects}

\* An invocation that is not inside a call, with what its last call returned.
Idle(returned) == [pc |-> "idle", local |-> NoLocal, result |-> returned]

\* Step 1, under the read lock: return Ok(0) below the threshold, else build
\* new_checkpoint from the current version, the old checkpoint and the deltas.
CreateNewCheckpoint(p, min_delta_log_num) ==
    /\ calls[p].pc = "idle"
    /\ overlapped' =
           (overlapped \/ \E q \in Invocations : q # p /\ calls[q].pc # "idle")
    /\ LET new_checkpoint_id == versioning.current_version
           old_checkpoint_id == versioning.checkpoint.version
       IN  IF SkipCheckpoint(new_checkpoint_id, old_checkpoint_id, min_delta_log_num)
           THEN calls' = [calls EXCEPT ![p] = Idle(Returned("Ok", 0))]
           ELSE calls' = [calls EXCEPT ![p] =
                    [pc |-> "persist",
                     local |->
                         [new_checkpoint |->
                              HummockVersionCheckpoint(
                                  new_checkpoint_id,
                                  StaleObjects(versioning.checkpoint.stale_objects,
                                               versioning.hummock_version_deltas,
                                               old_checkpoint_id,
                                               new_checkpoint_id)),
                          old_checkpoint_id |-> old_checkpoint_id],
                     result |-> NoReturn]]
    /\ UNCHANGED <<versioning, object_store, written>>
    /\ UNCHANGED stream_vars

\* Step 2 going on to step 3 whether the upload succeeded or not.
WriteCheckpointErrorIgnored(p, uploaded) ==
    /\ calls[p].pc = "persist"
    /\ IF uploaded
       THEN /\ object_store' = calls[p].local.new_checkpoint
            /\ written' = written \cup {calls[p].local.new_checkpoint}
       ELSE UNCHANGED <<object_store, written>>
    /\ calls' = [calls EXCEPT ![p].pc = "update"]
    /\ UNCHANGED <<versioning, overlapped>>
    /\ UNCHANGED stream_vars

\* Step 2, no lock held: write_checkpoint uploads new_checkpoint to
\* version_checkpoint_path, or fails and the call returns the error.
WriteCheckpoint(p, uploaded) ==
    /\ calls[p].pc = "persist"
    /\ IF uploaded
       THEN /\ object_store' = calls[p].local.new_checkpoint
            /\ written' = written \cup {calls[p].local.new_checkpoint}
            /\ calls' = [calls EXCEPT ![p].pc = "update"]
       ELSE /\ calls' = [calls EXCEPT ![p] = Idle(Returned("Err", 0))]
            /\ UNCHANGED <<object_store, written>>
    /\ UNCHANGED <<versioning, overlapped>>
    /\ UNCHANGED stream_vars

\* Step 3, under the write lock: assert that new_checkpoint is not older than
\* the in-memory one, replace it, mark its stale objects for deletion, return
\* new_checkpoint_id - old_checkpoint_id. The assertion that fails is a panic.
UpdateInMemoryState(p) ==
    /\ calls[p].pc = "update"
    /\ LET new_checkpoint == calls[p].local.new_checkpoint
           old_checkpoint_id == calls[p].local.old_checkpoint_id
       IN  IF CheckpointNotOlder(new_checkpoint, versioning.checkpoint)
           THEN /\ versioning' =
                       [versioning EXCEPT
                           !.checkpoint = new_checkpoint,
                           !.objects_to_delete =
                               MarkObjectsForDeletion(@, new_checkpoint)]
                /\ calls' = [calls EXCEPT ![p] =
                       Idle(Returned("Ok", new_checkpoint.version
                                              - old_checkpoint_id))]
           ELSE /\ calls' = [calls EXCEPT ![p] = Idle(Returned("Panic", 0))]
                /\ UNCHANGED versioning
    /\ UNCHANGED <<object_store, overlapped, written>>
    /\ UNCHANGED stream_vars

\* An operation of the manager that commits a new version under the write
\* lock: the version id grows by one, and the delta that leads to it is added
\* to hummock_version_deltas.
AdvanceVersion(gc_object_ids) ==
    /\ versioning.current_version < MaxVersion
    /\ gc_object_ids \in GcObjectIds(versioning.current_version + 1)
    /\ versioning' =
           [versioning EXCEPT
               !.current_version = @ + 1,
               !.hummock_version_deltas =
                   HashMapInsert(@, versioning.current_version + 1, gc_object_ids)]
    /\ UNCHANGED <<object_store, calls, overlapped, written>>
    /\ UNCHANGED stream_vars

\* A manager that has just started: version 0, checkpointed and persisted.
InitCheckpoint ==
    /\ versioning = [current_version |-> 0,
                     hummock_version_deltas |-> EmptyMap,
                     checkpoint |-> HummockVersionCheckpoint(0, EmptyMap),
                     objects_to_delete |-> {}]
    /\ object_store = HummockVersionCheckpoint(0, EmptyMap)
    /\ calls = [p \in Invocations |-> Idle(NoReturn)]
    /\ overlapped = FALSE
    /\ written = {HummockVersionCheckpoint(0, EmptyMap)}

----------------------------------------------------------------------------
(* The specifications *)

Init ==
    /\ InitCheckpoint
    /\ fragments = EmptyMap
    /\ channel_pool = EmptyMap
    /\ actors = EmptyMap
    /\ handles = <<>>
    /\ mock_source = [tx |-> TRUE, rx |-> TRUE]
    /\ poisoned = FALSE
    /\ tasks = <<>>
    /\ joined = {}
    /\ next_chan = 0

Next ==
    \/ \E batch \in FragmentBatches : UpdateFragment(batch)
    \/ \E table \in ActorInfoTables : UpdateActorInfo(table)
    \/ \E ids \in BuildRequests : BuildFragment(ids)
    \/ WaitAll
    \/ \E i \in 1..Len(tasks), outcome \in {"ok", "err"} : ActorExit(i, outcome)
    \/ PoisonedCall

Spec == Init /\ [][Next]_vars

NextCheckpoint ==
    \/ \E p \in Invocations, min_delta_log_num \in MinDeltaLogNums :
          CreateNewCheckpoint(p, min_delta_log_num)
    \/ \E p \in Invocations, uploaded \in BOOLEAN : WriteCheckpoint(p, uploaded)
    \/ \E p \in Invocations : UpdateInMemoryState(p)
    \/ \E gc_object_ids \in SUBSET ObjectIds : AdvanceVersion(gc_object_ids)

SpecCheckpoint == Init /\ [][NextCheckpoint]_vars

----------------------------------------------------------------------------
(* What a facade call made in the current state returns *)

\* build_fragment(ids): the state it leaves, with its status and reason.
BuildResult(ids) ==
    BuildLoop(BuildState(fragments, channel_pool, mock_source, tasks, "Ok", ""),
              actors, ids)

\* wait_all(): "Ok", "Err", or "Pending" while it awaits a running task.
WaitAllResult == JoinAll(handles, tasks, {}).status

Range(seq) == {seq[k] : k \in DOMAIN seq}

\* The tasks a build starting in the current state would add.
Launched(res) == {k \in DOMAIN res.tasks : k > Len(tasks)}

----------------------------------------------------------------------------
(* C1 - C3: registration *)

\* C1: a call of update_fragment that fails on a duplicate fragment id leaves
\* the fragment registry as it was before the call.
C1_DuplicateFragmentLeavesRegistry ==
    [][\A batch \in FragmentBatches :
          (UpdateFragment(batch) /\ InsertFragments(fragments, batch).dup)
              => fragments' = fragments]_vars

\* C2: a call of update_actor_info that fails on a duplicate actor leaves the
\* placement table as it was before the call.
C2_DuplicateActorLeavesTable ==
    [][\A table \in ActorInfoTables :
          (UpdateActorInfo(table) /\ InsertActors(actors, table).dup)
              => actors' = actors]_vars

\* The declared edges that point at id, over the fragments of the registry.
EdgesInto(id) ==
    LET edges == AllEdges(fragments, DOMAIN fragments)
    IN  Cardinality({k \in DOMAIN edges : edges[k][2] = id})

\* The pool holds one sender per declared downstream of each registered
\* fragment and one receiver per declared edge into each id.
OneChannelPerEdge ==
    /\ \A id \in DOMAIN fragments :
          Cardinality(PoolEntry(channel_pool, id).tx)
              = Len(fragments[id].downstream_fragment_id)
    /\ \A id \in FragmentIds :
          Cardinality(PoolEntry(channel_pool, id).rx) = EdgesInto(id)

\* C3: a successful update_fragment keeps one channel per declared edge: made
\* in a state that has exactly one, it leaves a state that has exactly one.
C3_OneChannelPerEdgeKept ==
    [][\A batch \in FragmentBatches :
          (/\ UpdateFragment(batch)
           /\ ~InsertFragments(fragments, batch).dup
           /\ OneChannelPerEdge)
              => OneChannelPerEdge']_vars

----------------------------------------------------------------------------
(* C4 - C6: wait_all *)

\* C4: wait_all does not return success while a spawned actor task is running.
C4_WaitAllWaitsForRunningTasks ==
    (~poisoned /\ \E i \in DOMAIN tasks : tasks[i].status = "running")
        => WaitAllResult # "Ok"

\* C5: while a spawned task has ended with an error that no wait_all has
\* reported, wait_all does not return success.
C5_WaitAllReportsTaskError ==
    (~poisoned /\ \E i \in DOMAIN tasks : tasks[i].status = "err" /\ i \notin joined)
        => WaitAllResult # "Ok"

----------------------------------------------------------------------------
(* C7 - C10: build_fragment *)

\* C7: build_fragment for an id that was built before and is no longer in the
\* registry returns a recoverable error, spawns no actor and leaves the manager
\* usable.
C7_SecondBuildIsRecoverable ==
    \A id \in FragmentIds :
        (/\ ~poisoned
         /\ id \notin DOMAIN fragments
         /\ \E i \in DOMAIN tasks : tasks[i].fragment_id = id)
            => /\ BuildResult(<<id>>).status = "Err"
               /\ BuildResult(<<id>>).tasks = tasks

\* C8: a build_fragment call that returns a construction error leaves no
\* fragment of its set launched, and the fragments it had not reached are in
\* the registry with their pool entries as before.
C8_BuildIsAllOrNothing ==
    [][\A ids \in BuildRequests :
          (BuildFragment(ids) /\ BuildResult(ids).status = "Err")
              => /\ tasks' = tasks
                 /\ \A k \in DOMAIN ids :
                       (/\ k > Len(BuildResult(ids).tasks) - Len(tasks) + 1
                        /\ ids[k] \in DOMAIN fragments
                        /\ \A j \in 1..(k - 1) : ids[j] # ids[k])
                           => /\ ids[k] \in DOMAIN fragments'
                              /\ PoolEntry(channel_pool', ids[k])
                                    = PoolEntry(channel_pool, ids[k])]_vars

\* The receivers create_merger obtains for a registered fragment, once its
\* upstreams are resolved: those of the pool and that of the mock source.
ReceiversObtained(id) ==
    Cardinality(PoolEntry(channel_pool, id).rx)
        + ResolveUpstreams(fragments[id].upstream_fragment_id, actors,
                           mock_source.rx, 0).n_mock

\* create_merger reaches its count of the receivers.
MergerResolves(id) ==
    /\ fragments[id].upstream_fragment_id # <<>>
    /\ ResolveUpstreams(fragments[id].upstream_fragment_id, actors,
                        mock_source.rx, 0).why = ""

\* create_dispatcher is reached: the merger and the operator chain are built.
DispatcherReached(id) ==
    /\ CreateMerger(channel_pool, mock_source, actors, id,
                    fragments[id].upstream_fragment_id).status = "Ok"
    /\ CreateNodes(fragments[id].nodes).status = "Ok"

ReceiverMismatch(id) ==
    /\ MergerResolves(id)
    /\ ReceiversObtained(id) # Len(fragments[id].upstream_fragment_id)

SenderMismatch(id) ==
    /\ DispatcherReached(id)
    /\ Cardinality(PoolEntry(channel_pool, id).tx)
          # Len(fragments[id].downstream_fragment_id)

\* C9: every launched actor has as many receivers as declared upstreams and
\* took as many senders as declared downstreams; a build that obtains another
\* number of receivers, or takes another number of senders, fails on the
\* count assertion and launches nothing.
C9_EndpointCountsChecked ==
    /\ \A i \in DOMAIN tasks :
          /\ Cardinality(tasks[i].rxs) + (IF tasks[i].mock_rx THEN 1 ELSE 0)
                = tasks[i].n_upstreams
          /\ Cardinality(tasks[i].outputs) = tasks[i].n_downstreams
    /\ \A id \in DOMAIN fragments :
          /\ (~poisoned /\ ReceiverMismatch(id))
                => /\ BuildResult(<<id>>).status = "Panic"
                   /\ BuildResult(<<id>>).why = "upstreams are not fully available"
                   /\ BuildResult(<<id>>).tasks = tasks
          /\ (~poisoned /\ SenderMismatch(id))
                => /\ BuildResult(<<id>>).status = "Panic"
                   /\ BuildResult(<<id>>).why = "downstreams.len() != outputs.len()"
                   /\ BuildResult(<<id>>).tasks = tasks

\* C9's case: an actor has been launched, and a registered fragment declares
\* two upstreams while one receiver is obtained for it.
C9_Witness ==
    /\ tasks # <<>>
    /\ \E id \in DOMAIN fragments :
          /\ ReceiverMismatch(id)
          /\ Len(fragments[id].upstream_fragment_id) = 2
          /\ ReceiversObtained(id) = 1

\* C10: the endpoints a build has taken are owned by one actor and by nothing
\* else: no two actors share a receiver or a sender, the pool holds no endpoint
\* an actor took, the mock receiver is in mock_source or with one actor, and
\* right after a build the pool entry of every fragment it launched is empty.
C10_EndpointsSingleUse ==
    /\ \A i, j \in DOMAIN tasks :
          i # j => /\ tasks[i].rxs \cap tasks[j].rxs = {}
                   /\ tasks[i].outputs \cap tasks[j].outputs = {}
                   /\ ~(tasks[i].mock_rx /\ tasks[j].mock_rx)
    /\ \A i \in DOMAIN tasks :
          /\ tasks[i].txs \subseteq tasks[i].outputs
          /\ tasks[i].mock_rx => ~mock_source.rx
          /\ \A id \in DOMAIN channel_pool :
                /\ tasks[i].rxs \cap channel_pool[id].rx = {}
                /\ tasks[i].outputs \cap channel_pool[id].tx = {}
    /\ ~poisoned =>
          \A ids \in BuildRequests :
              \A k \in Launched(BuildResult(ids)) :
                  PoolEntry(BuildResult(ids).channel_pool,
                            BuildResult(ids).tasks[k].fragment_id)
                      = [tx |-> {}, rx |-> {}]

\* C10's case: two actors are launched, the first owns a sender and the second
\* the receiver of the same channel, and the pool entries of both are empty.
C10_Witness ==
    /\ Len(tasks) = 2
    /\ tasks[1].txs # {}
    /\ tasks[1].txs = tasks[2].rxs
    /\ \A i \in DOMAIN tasks :
          PoolEntry(channel_pool, tasks[i].fragment_id) = [tx |-> {}, rx |-> {}]

----------------------------------------------------------------------------
(* C11 - C15: upstreams and dispatchers of build_fragment *)

\* A registered fragment declares an upstream that the actor table places on
\* another host than the local one.
HasRemoteUpstream(id) ==
    \E k \in DOMAIN fragments[id].upstream_fragment_id :
        LET upstream == fragments[id].upstream_fragment_id[k]
        IN  /\ upstream # MockSourceId
            /\ upstream \in DOMAIN actors
            /\ actors[upstream] # LocalHost

\* Every other upstream of the fragment resolves: the mock source is declared
\* at most once and has its receiver, the others are in the actor table.
OtherUpstreamsResolve(id) ==
    LET upstreams == fragments[id].upstream_fragment_id
    IN  /\ \A k \in DOMAIN upstreams :
              upstreams[k] # MockSourceId => upstreams[k] \in DOMAIN actors
        /\ \A j, k \in DOMAIN upstreams :
              (upstreams[j] = MockSourceId /\ upstreams[k] = MockSourceId)
                  => (j = k /\ mock_source.rx)

\* C11: building a fragment with a non-mock upstream placed on a remote host
\* fails and launches no actor; the failure is the one of the unsupported
\* remote upstream whenever the other upstreams resolve. The upstream is never
\* passed over to build the merger without its receiver.
C11_RemoteUpstreamFails ==
    \A id \in DOMAIN fragments :
        (~poisoned /\ HasRemoteUpstream(id))
            => /\ BuildResult(<<id>>).status = "Panic"
               /\ BuildResult(<<id>>).tasks = tasks
               /\ OtherUpstreamsResolve(id)
                     => BuildResult(<<id>>).why = "remote node is not supported"

\* C11's case: an actor is running, and a registered fragment whose only
\* upstream is placed on the remote host has the receiver of that edge in the
\* pool, so that passing over the upstream would let the build go through.
C11_Witness ==
    /\ ~poisoned
    /\ tasks # <<>>
    /\ \E id \in DOMAIN fragments :
          /\ HasRemoteUpstream(id)
          /\ OtherUpstreamsResolve(id)
          /\ Len(fragments[id].upstream_fragment_id) = 1
          /\ Cardinality(PoolEntry(channel_pool, id).rx) = 1
          /\ DownstreamsAvailable(Cardinality(PoolEntry(channel_pool, id).tx),
                                  fragments[id].downstream_fragment_id)
          /\ fragments[id].dispatcher = "BLACKHOLE"
          /\ fragments[id].nodes = "ok"

\* C12: the receiver of the mock source (upstream id 0) is there for every
\* fragment that declares it: no build fails because an earlier build, or an
\* earlier fragment of the same build, has taken it.
C12_MockSourceAlwaysAvailable ==
    \A ids \in BuildRequests :
        (~poisoned /\ \A k \in DOMAIN ids : ids[k] \in DOMAIN fragments)
            => BuildResult(ids).why # "mock source taken"

\* C13: a registered fragment with no upstream, one declared downstream wired
\* in the pool and a SIMPLE dispatcher is built with success.
C13_SourceFragmentBuilds ==
    \A id \in DOMAIN fragments :
        (/\ ~poisoned
         /\ fragments[id].upstream_fragment_id = <<>>
         /\ PoolEntry(channel_pool, id).rx = {}
         /\ fragments[id].nodes = "ok"
         /\ fragments[id].dispatcher = "SIMPLE"
         /\ Len(fragments[id].downstream_fragment_id) = 1
         /\ Cardinality(PoolEntry(channel_pool, id).tx) = 1)
            => /\ BuildResult(<<id>>).status = "Ok"
               /\ Len(BuildResult(<<id>>).tasks) = Len(tasks) + 1

\* C14: an actor with a SIMPLE dispatcher has exactly one output. Where the
\* build of a SIMPLE fragment reaches create_dispatcher, it succeeds when one
\* downstream is declared and wired, and with zero or two declared downstreams
\* it fails and launches nothing, on the arity assertion when the pool holds as
\* many senders as declared.
C14_SimpleDispatchArity ==
    /\ \A i \in DOMAIN tasks :
          tasks[i].dispatcher = "SIMPLE"
              => /\ Cardinality(tasks[i].txs) = 1
                 /\ tasks[i].n_downstreams = 1
    /\ \A id \in DOMAIN fragments :
          (/\ ~poisoned
           /\ fragments[id].dispatcher = "SIMPLE"
           /\ DispatcherReached(id))
              => LET declared == Len(fragments[id].downstream_fragment_id)
                     senders == Cardinality(PoolEntry(channel_pool, id).tx)
                     res == BuildResult(<<id>>)
                 IN  /\ (declared = 1 /\ senders = 1)
                           => /\ res.status = "Ok"
                              /\ Len(res.tasks) = Len(tasks) + 1
                     /\ declared # 1
                           => /\ res.status = "Panic"
                              /\ res.tasks = tasks
                              /\ senders = declared
                                    => res.why = "outputs.len() != 1"

\* C14's case: an actor with a SIMPLE dispatcher over one output is running,
\* and the build of a registered SIMPLE fragment that declares no downstream
\* would reach create_dispatcher.
C14_Witness ==
    /\ ~poisoned
    /\ \E i \in DOMAIN tasks :
          tasks[i].dispatcher = "SIMPLE" /\ Cardinality(tasks[i].txs) = 1
    /\ \E id \in DOMAIN fragments :
          /\ fragments[id].dispatcher = "SIMPLE"
          /\ DispatcherReached(id)
          /\ fragments[id].downstream_fragment_id = <<>>
          /\ PoolEntry(channel_pool, id).tx = {}

\* C15: no actor with a BLACKHOLE dispatcher has taken a sender from the pool,
\* and every actor with a ROUND_ROBIN, HASH or BROADCAST dispatcher has at
\* least one output.
C15_DispatcherOutputsValidated ==
    \A i \in DOMAIN tasks :
        /\ tasks[i].dispatcher = "BLACKHOLE"
              => (tasks[i].outputs = {} /\ tasks[i].n_downstreams = 0)
        /\ tasks[i].dispatcher \in {"ROUND_ROBIN", "HASH", "BROADCAST"}
              => tasks[i].txs # {}

----------------------------------------------------------------------------
(* C18 - C19: the facade *)

\* update_fragment(batch): whether it fails on a duplicate, and the registry
\* and the pool it leaves.
UpdateFragmentResult(batch) ==
    LET ins == InsertFragments(fragments, batch)
    IN  [dup |-> ins.dup,
         fragments |-> ins.fragments,
         channel_pool |->
             IF ins.dup
             THEN channel_pool
             ELSE DeclareEdges(channel_pool,
                               AllEdges(ins.fragments, DOMAIN ins.fragments),
                               next_chan)]

\* C18: update_fragment does not look for the declared downstreams in the
\* registry: a call that succeeds leaves, for every registered fragment and
\* every downstream it declares that is not registered, a pool entry of the
\* downstream with the receiver of a channel made by the call, whose sender
\* the call added to the entry of the fragment.
C18_UnregisteredDownstreamWired ==
    [](~poisoned =>
        \A batch \in FragmentBatches :
            ~InsertFragments(fragments, batch).dup =>
                LET res == UpdateFragmentResult(batch)
                IN  \A id \in DOMAIN res.fragments :
                      \A k \in DOMAIN res.fragments[id].downstream_fragment_id :
                        LET down == res.fragments[id].downstream_fragment_id[k]
                        IN  down \notin DOMAIN res.fragments
                              => /\ down \in DOMAIN res.channel_pool
                                 /\ \E c \in res.channel_pool[down].rx :
                                       /\ c > next_chan
                                       /\ c \in PoolEntry(res.channel_pool, id).tx
                                       /\ c \notin PoolEntry(channel_pool, id).tx
                                       /\ c \notin PoolEntry(channel_pool, down).rx)

\* C18's case: a registered fragment declares a downstream that is not in the
\* registry and was never built, and the pool has an entry for the downstream
\* with the receiver of a channel whose sender is in the entry of the fragment.
C18_Witness ==
    /\ ~poisoned
    /\ tasks = <<>>
    /\ \E id \in DOMAIN fragments :
          \E k \in DOMAIN fragments[id].downstream_fragment_id :
              LET down == fragments[id].downstream_fragment_id[k]
              IN  /\ down \notin DOMAIN fragments
                  /\ down \in DOMAIN channel_pool
                  /\ channel_pool[down].rx \cap PoolEntry(channel_pool, id).tx # {}

\* C19: a build_fragment call that fails leaves the manager usable: the lock
\* of the facade can be taken by the calls that follow.
C19_UsableAfterFailedBuild ==
    [][\A ids \in BuildRequests :
          (BuildFragment(ids) /\ BuildResult(ids).status # "Ok")
              => ~poisoned']_vars

----------------------------------------------------------------------------
(* C16, C20: create_version_checkpoint *)

\* C16: step 1 takes the id of the current version as the new checkpoint id
\* and the id of the in-memory checkpoint as the old one; the call that
\* replaces the in-memory checkpoint returns new id - old id, which is the
\* growth of the in-memory checkpoint id when no other call overlapped; and a
\* call made while the current version id is below old id + min_delta_log_num
\* returns 0 at once and changes neither the object in the store nor the
\* in-memory checkpoint.
C16_CheckpointReturn ==
    [][\A p \in Invocations :
          /\ (calls[p].pc = "idle" /\ calls'[p].pc = "persist")
                => /\ calls'[p].local.new_checkpoint.version
                         = versioning.current_version
                   /\ calls'[p].local.old_checkpoint_id
                         = versioning.checkpoint.version
          /\ (calls[p].pc = "update" /\ calls'[p].result.status = "Ok")
                => /\ versioning'.checkpoint = calls[p].local.new_checkpoint
                   /\ calls'[p].result.value
                         = versioning'.checkpoint.version
                              - calls[p].local.old_checkpoint_id
                   /\ ~overlapped
                         => calls'[p].result.value
                               = versioning'.checkpoint.version
                                    - versioning.checkpoint.version
          /\ \A min_delta_log_num \in MinDeltaLogNums :
                (/\ CreateNewCheckpoint(p, min_delta_log_num)
                 /\ versioning.current_version
                       < versioning.checkpoint.version + min_delta_log_num)
                    => /\ calls'[p] = Idle(Returned("Ok", 0))
                       /\ versioning' = versioning
                       /\ object_store' = object_store
       ]_vars

\* C16's case: with no overlapping calls, one call has replaced the checkpoint
\* of version 0 by the one of version 2 and returned 2, and another call made
\* later has returned 0.
C16_Witness ==
    /\ ~overlapped
    /\ versioning.checkpoint.version = 2
    /\ object_store = versioning.checkpoint
    /\ \E p, q \in Invocations :
          /\ p # q
          /\ calls[p].result = Returned("Ok", 2)
          /\ calls[q].result = Returned("Ok", 0)

\* C20: the version id of the in-memory checkpoint never decreases, and as
\* long as no call of create_version_checkpoint has started while another was
\* under way, the assertion of step 3 has not failed, whatever versions and
\* deltas were committed between step 1 and step 3.
C20_SequentialCheckpointsAdvance ==
    [][/\ versioning'.checkpoint.version >= versioning.checkpoint.version
       /\ ~overlapped'
             => \A p \in Invocations : calls'[p].result.status # "Panic"
      ]_vars

\* C20's case: no call has overlapped another, an earlier call has replaced
\* the checkpoint, and an invocation stands before step 3 with a new
\* checkpoint made before the current version and its delta were committed.
C20_Witness ==
    /\ ~overlapped
    /\ versioning.checkpoint.version > 0
    /\ \E p \in Invocations :
          /\ calls[p].pc = "update"
          /\ calls[p].local.new_checkpoint.version < versioning.current_version
          /\ versioning.current_version
                \in DOMAIN versioning.hummock_version_deltas

\* C20, with two overlapping calls: the assertion of step 3 has failed.
C20_OverlapBreaksAssertion ==
    /\ overlapped
    /\ \E p \in Invocations : calls[p].result.status = "Panic"

----------------------------------------------------------------------------
(* C21, C22: what a checkpoint holds *)

\* C21: the in-memory checkpoint is always one that was uploaded to the object
\* store, and a call whose upload fails returns the error and leaves the
\* in-memory checkpoint and the objects marked for deletion as they were.
C21_InMemoryCheckpointPersisted ==
    /\ [](versioning.checkpoint \in written)
    /\ [][\A p \in Invocations :
            (calls[p].pc = "persist" /\ calls'[p].pc = "idle")
                => /\ calls'[p].result = Returned("Err", 0)
                   /\ versioning'.checkpoint = versioning.checkpoint
                   /\ versioning'.objects_to_delete = versioning.objects_to_delete
                   /\ object_store' = object_store
         ]_vars

\* C21's case: a call has returned the error of its upload, another call has
\* uploaded a checkpoint of a later version that step 3 has not yet put in
\* memory, and the in-memory checkpoint is one that an earlier call uploaded.
C21_Witness ==
    /\ versioning.checkpoint.version > 0
    /\ object_store.version > versioning.checkpoint.version
    /\ \E p, q \in Invocations :
          /\ calls[p].result = Returned("Err", 0)
          /\ calls[q].pc = "update"
          /\ calls[q].local.new_checkpoint = object_store

\* The deltas step 1 reads for a checkpoint from old_id to new_id: those with
\* an id in (old_id, new_id] and gc_object_ids that is not empty.
DeltasWithGc(old_id, new_id) ==
    {id \in DOMAIN versioning.hummock_version_deltas :
        /\ old_id < id
        /\ id <= new_id
        /\ versioning.hummock_version_deltas[id] # {}}

\* C22: the stale_objects of the checkpoint step 1 builds has every entry of
\* the map of the old checkpoint, one entry keyed by the delta id with its
\* gc_object_ids for each delta of (old id, new id] whose gc_object_ids is not
\* empty, and no other entry; and step 3 replaces the in-memory checkpoint by
\* one that has every entry the replaced one had.
C22_StaleObjectsAccumulate ==
    [][\A p \in Invocations :
          /\ (calls[p].pc = "idle" /\ calls'[p].pc = "persist")
                => LET old == versioning.checkpoint.stale_objects
                       new == calls'[p].local.new_checkpoint.stale_objects
                       added == DeltasWithGc(versioning.checkpoint.version,
                                             versioning.current_version)
                   IN  /\ DOMAIN new = DOMAIN old \cup added
                       /\ \A id \in DOMAIN old : new[id] = old[id]
                       /\ \A id \in added :
                             new[id] = versioning.hummock_version_deltas[id]
          /\ (calls[p].pc = "update" /\ calls'[p].result.status = "Ok")
                => LET old == versioning.checkpoint.stale_objects
                       new == versioning'.checkpoint.stale_objects
                   IN  /\ DOMAIN old \subseteq DOMAIN new
                       /\ \A id \in DOMAIN old : new[id] = old[id]
       ]_vars

\* C22's case: the checkpoint of version 1 holds the stale object of delta 1,
\* delta 2 has no gc_object_ids and delta 3 has one, and a call has built the
\* checkpoint of version 3 with the entries of deltas 1 and 3 and none for 2.
C22_Witness ==
    /\ versioning.checkpoint.version = 1
    /\ DOMAIN versioning.checkpoint.stale_objects = {1}
    /\ 2 \in DOMAIN versioning.hummock_version_deltas
    /\ versioning.hummock_version_deltas[2] = {}
    /\ \E p \in Invocations :
          /\ calls[p].pc = "update"
          /\ calls[p].local.old_checkpoint_id = 1
          /\ calls[p].local.new_checkpoint.version = 3
          /\ DOMAIN calls[p].local.new_checkpoint.stale_objects = {1, 3}

====
